---- MODULE Spec2Model ----
(***************************************************************************)
(* registry-sync: src/lib/sync.js, synchronize(options).                   *)
(*                                                                         *)
(* The program is one event loop.  Every action below is one callback of   *)
(* that loop (a network response, a Bacon.later timer) run to completion:  *)
(* the Bacon.js pipeline delivers an event synchronously through map,      *)
(* doAction, flatMap, skipDuplicates ... down to the subscribers, so the   *)
(* whole chain a callback triggers is one atomic step.  An exception that  *)
(* leaves a callback is uncaught: the process dies (run = "crashed").      *)
(***************************************************************************)
EXTENDS Bags, FiniteSets, Integers, Sequences, TLC

(* ------------------------------ bounds -------------------------------- *)
\* longest list options.prebuiltBinaryProperties that Init draws
MaxVariants == 2
\* number of successive runs of the program against the same mirror root
MaxRuns == 2

(* ------------------------- program constants -------------------------- *)
\* flatMapWithConcurrencyLimit(5, downloadPackage)
ConcurrencyLimit == 5

(* ------------------------------ semver -------------------------------- *)
\* semver.maxSatisfying returns null when nothing matches
Null == <<>>

V(major, minor, patch) == <<major, minor, patch>>

Caret(v) == [op |-> "^", v |-> v]
Exact(v) == [op |-> "=", v |-> v]
AnyVersion == [op |-> "*", v |-> Null]

SemverLT(a, b) ==
  \/ a[1] < b[1]
  \/ a[1] = b[1] /\ a[2] < b[2]
  \/ a[1] = b[1] /\ a[2] = b[2] /\ a[3] < b[3]

\* semver range matching for the range forms the registry below uses
Satisfies(v, range) ==
  CASE range.op = "*" -> TRUE
    [] range.op = "=" -> v = range.v
    [] range.op = "^" ->
         /\ ~SemverLT(v, range.v)
         /\ IF range.v[1] > 0 THEN v[1] = range.v[1]
            ELSE IF range.v[2] > 0 THEN v[1] = 0 /\ v[2] = range.v[2]
            ELSE v = range.v

SeqToSet(seq) == {seq[i] : i \in DOMAIN seq}

\* a selection of the lowest matching version
minSatisfying(available, range) ==
  LET ok == {v \in SeqToSet(available) : Satisfies(v, range)}
  IN  IF ok = {} THEN Null
      ELSE CHOOSE v \in ok : \A u \in ok : ~SemverLT(u, v)

maxSatisfying(available, range) ==
  LET ok == {v \in SeqToSet(available) : Satisfies(v, range)}
  IN  IF ok = {} THEN Null
      ELSE CHOOSE v \in ok : \A u \in ok : ~SemverLT(v, u)

(* --------------------- the registry (upstream data) ------------------- *)
Dep(name, range) == [name |-> name, versionRange |-> range]
NoDep == Dep("", AnyVersion)

\* one entry of metadata.versions: its dependencies object (in key order) and
\* whether it carries binary.module_name
Ver(v, deps, bin) == [version |-> v, dependencies |-> deps, binary |-> bin]

Leaf == <<Ver(V(1,0,0), <<>>, FALSE)>>

Registry ==
  [ app |-> <<Ver(V(1,0,0), <<Dep("p1", Caret(V(1,0,0))), Dep("p2", Caret(V(1,0,0))),
                              Dep("p3", Caret(V(1,0,0))), Dep("p4", Caret(V(1,0,0))),
                              Dep("p5", Caret(V(1,0,0)))>>, FALSE)>>,
    p1 |-> Leaf, p2 |-> Leaf, p3 |-> Leaf, p4 |-> Leaf, p5 |-> Leaf,
    a |-> <<Ver(V(1,0,0), <<Dep("c", Caret(V(1,0,0)))>>, FALSE)>>,
    b |-> <<Ver(V(1,0,0), <<Dep("c", Caret(V(1,0,0)))>>, FALSE)>>,
    c |-> <<Ver(V(1,0,0), <<>>, FALSE), Ver(V(1,2,0), <<>>, FALSE),
            Ver(V(2,0,0), <<Dep("a", Caret(V(1,0,0)))>>, FALSE)>>,
    d |-> <<Ver(V(1,0,0), <<Dep("c", Caret(V(2,0,0))), Dep("s", AnyVersion)>>, FALSE)>>,
    s |-> <<Ver(V(1,0,0), <<Dep("s", Caret(V(1,0,0)))>>, FALSE)>>,
    x |-> <<Ver(V(1,0,0), <<Dep("y", Caret(V(1,0,0)))>>, FALSE)>>,
    y |-> <<Ver(V(1,0,0), <<Dep("x", Caret(V(1,0,0)))>>, FALSE)>>,
    n |-> <<Ver(V(1,0,0), <<>>, TRUE), Ver(V(1,1,0), <<>>, TRUE)>>,
    m |-> <<Ver(V(1,0,0), <<Dep("n", Exact(V(1,0,0)))>>, FALSE)>>,
    z |-> <<Ver(V(1,0,0), <<Dep("q", Caret(V(9,0,0)))>>, FALSE)>>,
    q |-> Leaf ]

Names == DOMAIN Registry

\* Object.keys(metadata.versions)
available(name) == [i \in DOMAIN Registry[name] |-> Registry[name][i].version]

HasVersion(name, version) == \E i \in DOMAIN Registry[name] : Registry[name][i].version = version

\* metadata.versions[version]
versionEntry(name, version) ==
  Registry[name][CHOOSE i \in DOMAIN Registry[name] : Registry[name][i].version = version]

(* ------------------------ inputs of one run --------------------------- *)
Manifests ==
  { <<Dep("a", Caret(V(1,0,0))), Dep("b", Caret(V(1,0,0)))>>,
    <<Dep("app", Caret(V(1,0,0)))>>,
    <<Dep("x", Caret(V(1,0,0)))>>,
    <<Dep("d", AnyVersion)>>,
    <<Dep("y", Caret(V(1,0,0))), Dep("b", Caret(V(1,0,0))), Dep("s", AnyVersion)>>,
    <<Dep("n", Caret(V(1,0,0))), Dep("m", Caret(V(1,0,0)))>>,
    <<Dep("z", AnyVersion), Dep("p1", Caret(V(1,0,0)))>>,
    <<>> }

\* the requested (abi, platform, arch) variants, each abstracted to its index
Variants(nv) == [k \in 1..nv |-> k]

\* the variant list is read only for a version that declares binary.module_name,
\* so its length is varied for the manifests that lead to one
DeclaresBinary(mf) == \E i \in DOMAIN mf : mf[i].name \in {"n", "m"}

\* the sweep reads the mirror root and requiredFiles only, so options.prune is
\* varied for the manifests with up to three packages, and with a manifest that
\* leads to binaries for the lists of at most one variant
Prunable(mf, nv) ==
  \/ Len(mf) = 0
  \/ Len(mf) > 0 /\ mf[1].name \in {"a", "x", "z"}
  \/ DeclaresBinary(mf) /\ nv <= 1

Options ==
  {[manifest |-> mf, prebuiltBinaryProperties |-> Variants(nv), prune |-> p] :
     mf \in Manifests, nv \in 0..MaxVariants, p \in BOOLEAN} \
  ( {[manifest |-> mf, prebuiltBinaryProperties |-> Variants(nv), prune |-> p] :
       mf \in {x \in Manifests : ~DeclaresBinary(x)}, nv \in 0..MaxVariants \ {1},
       p \in BOOLEAN}
    \cup
    UNION {{[manifest |-> mf, prebuiltBinaryProperties |-> Variants(nv), prune |-> TRUE] :
              mf \in {x \in Manifests : ~Prunable(x, nv)}} : nv \in 0..MaxVariants} )

(* ------------------------ urls, paths, bytes -------------------------- *)
\* url.resolve(options.registryUrl, name)
metadataUrl(name) == <<"meta", name, Null, 0>>
\* dist.tarball of the upstream metadata: ends in ".tgz"
tarballUrl(name, version) == <<"tgz", name, version, 0>>
prebuiltBinaryUrl(name, version, variant) == <<"bin", name, version, variant>>

endsWithTgz(url) == url[1] = "tgz"

\* url.resolve(options.localUrl, name + '/' + packageFilename(name, version))
packageTarballFileUrl(name, version) == <<"mirror", name, version, 0>>

packageMetadataFilePath(name) == <<"index.json", name, Null, 0>>
packageTarballFilePath(name, version) == <<"tarball", name, version, 0>>
prebuiltBinaryFilePath(name, version, variant) == <<"binary", name, version, variant>>

\* path.resolve(options.rootFolder, name): the directory of a package, and the
\* directory a file path lies in
packageFolder(name) == <<"dir", name, Null, 0>>
dirname(file) == packageFolder(file[2])

\* the bytes upstream serves for an archive, and a body that differs from them
upstreamBytes(name, version) == <<"bytes", name, version, 0>>
corruptBytes(name, version) == <<"bytes", name, version, 1>>

sha1(data) == <<"sha1", data[2], data[3], data[4]>>

\* dist.shasum of the upstream metadata
shasum(name, version) == sha1(upstreamBytes(name, version))

\* the bytes upstream serves for a prebuilt binary
binaryBytes(name, version, variant) == <<"bytes", name, version, variant>>

\* the metadata document upstream serves for a name: its version entries, each
\* with its dist.tarball
upstreamMetadata(name) ==
  <<"json", name,
    {<<Registry[name][i].version, tarballUrl(name, Registry[name][i].version)>> :
       i \in DOMAIN Registry[name]}>>

\* the body upstream serves for a metadata or binary url
upstreamBody(url) ==
  IF url[1] = "meta" THEN upstreamMetadata(url[2]) ELSE binaryBytes(url[2], url[3], url[4])

(* ------------------------- the mirror root ---------------------------- *)
\* what options.rootFolder holds when the program starts: nothing, the metadata
\* file of a package no manifest refers to, or the metadata and the tarball of
\* n@1.1.0 that an earlier synchronization left
LeftoverPkg == "leftover-pkg"

EmptyMirror == [disk |-> <<>>, dirs |-> {}]

LeftoverMirror ==
  [disk |-> packageMetadataFilePath(LeftoverPkg) :> <<"json", LeftoverPkg, {}>>,
   dirs |-> {packageFolder(LeftoverPkg)}]

EarlierMirror ==
  [disk |-> (packageMetadataFilePath("n") :>
               <<"json", "n", {<<V(1,1,0), packageTarballFileUrl("n", V(1,1,0))>>}>>)
            @@ (packageTarballFilePath("n", V(1,1,0)) :> upstreamBytes("n", V(1,1,0))),
   dirs |-> {packageFolder("n")}]

Mirrors(o) ==
  {EmptyMirror}
    \cup (IF o.manifest \in {<<>>, <<Dep("x", Caret(V(1,0,0)))>>} THEN {LeftoverMirror} ELSE {})
    \cup (IF DeclaresBinary(o.manifest) /\ o.prune /\ o.prebuiltBinaryProperties = <<>>
          THEN {EarlierMirror} ELSE {})

(* ------------------------------- state -------------------------------- *)
VARIABLES
  options,            \* the argument of synchronize
  runNo,              \* which run of the program this is
  run,                \* "init", "resolving", "downloading", "ended", "crashed"
  responseCache,      \* url -> cached body
  requiredFiles,      \* paths touched by fileExists
  collectedNames,     \* Object.keys(collectedPackages), in insertion order
  collectedPackages,  \* name -> array of versions
  disk,               \* path -> content, for the files that exist
  dirs,               \* the package directories that exist under the root
  sweep,              \* the pruning sweep: its phase, the directories still to
                      \* list, the deletions issued and not completed
  tasks,              \* one resolution stream per manifest dependency
  wf,                 \* one downloadPackage stream per collected name
  requests,           \* bag of urls requested over the network in this run
  emitted,            \* bag of status values that reached downloaded.log()
  archiveEvents,      \* bag of <<name, version>>: events that reached the archive step
  recursions,         \* bag of <<name, version>>: collectPackage returned true
  cacheWrites,        \* bag of urls: assignments responseCache[url] = body
  fatal               \* the error that ended the run, NoError while there is none

vars == <<options, runNo, run, responseCache, requiredFiles, collectedNames,
          collectedPackages, disk, dirs, sweep, tasks, wf, requests, emitted,
          archiveEvents, recursions, cacheWrites, fatal>>

\* the mutable state a callback works on
Cur ==
  [run |-> run, responseCache |-> responseCache, requiredFiles |-> requiredFiles,
   collectedNames |-> collectedNames, collectedPackages |-> collectedPackages,
   disk |-> disk, dirs |-> dirs, sweep |-> sweep, tasks |-> tasks, wf |-> wf,
   requests |-> requests, emitted |-> emitted, archiveEvents |-> archiveEvents,
   recursions |-> recursions, cacheWrites |-> cacheWrites, fatal |-> fatal]

Commit(s) ==
  /\ run' = s.run
  /\ responseCache' = s.responseCache
  /\ requiredFiles' = s.requiredFiles
  /\ collectedNames' = s.collectedNames
  /\ collectedPackages' = s.collectedPackages
  /\ disk' = s.disk
  /\ dirs' = s.dirs
  /\ sweep' = s.sweep
  /\ tasks' = s.tasks
  /\ wf' = s.wf
  /\ requests' = s.requests
  /\ emitted' = s.emitted
  /\ archiveEvents' = s.archiveEvents
  /\ recursions' = s.recursions
  /\ cacheWrites' = s.cacheWrites
  /\ fatal' = s.fatal

Add(bag, x) == bag (+) SetToBag({x})

(* --------------------------- error handling --------------------------- *)
NoError == <<>>
\* `Failed to fetch ${url} because of error ...`
FetchError(url) == <<"FetchError", url>>
\* 'SHA checksum of name@version does not match'
ChecksumError(name, version) == <<"ChecksumError", name, version>>
\* Cannot read property 'dependencies' (or 'dist') of undefined
TypeError(name) == <<"TypeError", name>>

\* an exception leaves the callback: nothing catches it, the process dies
throw(s, error) ==
  [s EXCEPT !.run = "crashed", !.fatal = IF @ = NoError THEN error ELSE @]

\* a handler that only records the error, the run going on
onErrorLogged(s, err) == [s EXCEPT !.fatal = IF @ = NoError THEN err ELSE @]
\* downloaded.onError(err => { throw new Error(err) })
onError(s, err) == throw(s, err)

\* an Error event passes every flatMap and reaches the subscribers of `downloaded`
pushError(s, err) == onError(s, err)

(* ------------------------- remote fetch layer ------------------------- *)
\* fetchUrl, the part that runs when the stream is created and subscribed:
\* a cached url gives Bacon.later(0, body), any other a network request
fetchWait(s, url) == IF url \in DOMAIN s.responseCache THEN "timer" ELSE "net"

fetchUrl(s, url) ==
  IF url \in DOMAIN s.responseCache THEN s
  ELSE [s EXCEPT !.requests = Add(@, url)]

\* fetchUrl, the request callback on status 200
fetchUrlOk(s, url, body) ==
  IF ~endsWithTgz(url)
  THEN [s EXCEPT !.responseCache = (url :> body) @@ @, !.cacheWrites = Add(@, url)]
  ELSE s

\* the body a settled fetch delivers: the response, or the cached body
fetchedBody(s, url, wait) == IF wait = "net" THEN upstreamBody(url) ELSE s.responseCache[url]

\* what a pending fetch can deliver: a timer always delivers the cached body
Outcomes(wait) == IF wait = "net" THEN {"ok", "fail"} ELSE {"ok"}

(* -------------------------- version resolver -------------------------- *)
\* collectPackage without the indexOf test
collectPackageNoCheck(s, package) ==
  [s |-> [s EXCEPT !.collectedPackages[package.name] = Append(@, package.version),
                   !.collectedNames =
                      IF package.name \in SeqToSet(@) THEN @ ELSE Append(@, package.name)],
   result |-> TRUE]

\* a collectPackage that records a version once and returns true every time
collectPackageAlwaysTrue(s, package) ==
  LET versions == s.collectedPackages[package.name]
  IN  IF package.version \in SeqToSet(versions)
      THEN [s |-> s, result |-> TRUE]
      ELSE [s |-> [s EXCEPT !.collectedPackages[package.name] = Append(versions, package.version),
                            !.collectedNames =
                               IF package.name \in SeqToSet(@) THEN @
                               ELSE Append(@, package.name)],
            result |-> TRUE]

\* collectPackage: [s |-> the state after the call, result |-> what it returned]
collectPackage(s, package) ==
  LET versions == s.collectedPackages[package.name]
  IN  IF package.version \in SeqToSet(versions)
      THEN [s |-> s, result |-> FALSE]
      ELSE [s |-> [s EXCEPT !.collectedPackages[package.name] = Append(versions, package.version),
                            !.collectedNames =
                               IF package.name \in SeqToSet(@) THEN @
                               ELSE Append(@, package.name)],
            result |-> TRUE]

\* a .map that reads the dependencies of a missing version as none
resolvedPackageLenient(package) ==
  LET version == maxSatisfying(available(package.name), package.versionRange)
  IN  [threw |-> FALSE, name |-> package.name, version |-> version,
       dependencies |-> IF version = Null THEN <<>>
                        ELSE versionEntry(package.name, version).dependencies]

\* the .map of resolveVersionAndDependencies: reading .dependencies of
\* metadata.versions[null] is a TypeError
resolvedPackage(package) ==
  LET version == maxSatisfying(available(package.name), package.versionRange)
  IN  IF version = Null
      THEN [threw |-> TRUE, name |-> package.name, version |-> Null, dependencies |-> <<>>]
      ELSE [threw |-> FALSE, name |-> package.name, version |-> version,
            dependencies |-> versionEntry(package.name, version).dependencies]

\* resolveVersionAndDependencies up to its fetch: the stream is created and
\* subscribed in the same callback, so the cache is read when the request is made
resolveVersionAndDependencies(s, i, package) ==
  LET url == metadataUrl(package.name)
  IN  [fetchUrl(s, url) EXCEPT !.tasks[i].cur = package,
                               !.tasks[i].wait = fetchWait(s, url)]

\* how many dependencies of its package a frame has started
StartedCount(frame) ==
  Len(versionEntry(frame.parent[1], frame.parent[2]).dependencies) - Len(frame.rest)

RECURSIVE nextDependency(_, _)
\* a stream of dependencies that ends after its first element
nextDependencyFirstOnly(s, i) ==
  LET stack == s.tasks[i].stack
  IN  IF stack = <<>>
      THEN [s EXCEPT !.tasks[i].cur = NoDep, !.tasks[i].wait = "done"]
      ELSE IF Head(stack).rest = <<>> \/ StartedCount(Head(stack)) > 0
      THEN nextDependency([s EXCEPT !.tasks[i].stack = Tail(stack)], i)
      ELSE resolveVersionAndDependencies(
             [s EXCEPT !.tasks[i].stack[1].rest = Tail(@)], i, Head(Head(stack).rest))

\* flatMapConcat over the dependencies of each package on the way down from
\* manifest entry i: the next queued dependency of the innermost package that
\* has one starts when the stream before it has ended
nextDependency(s, i) ==
  LET stack == s.tasks[i].stack
  IN  IF stack = <<>>
      THEN [s EXCEPT !.tasks[i].cur = NoDep, !.tasks[i].wait = "done"]
      ELSE IF Head(stack).rest = <<>>
      THEN nextDependency([s EXCEPT !.tasks[i].stack = Tail(stack)], i)
      ELSE resolveVersionAndDependencies(
             [s EXCEPT !.tasks[i].stack[1].rest = Tail(@)], i, Head(Head(stack).rest))

\* the stream Bacon.fromArray(dependencies).flatMapConcat(...) of one collected
\* package: the dependencies it has not started yet
Frame(pkg) == [parent |-> <<pkg.name, pkg.version>>, rest |-> pkg.dependencies]

\* a .flatMap that leaves the dependencies of the new package for after the
\* remaining dependencies of the packages above it
collectAndRecurseLater(s, i, pkg) ==
  LET c == collectPackage(s, pkg)
  IN  IF c.result
      THEN [c.s EXCEPT !.tasks[i].stack = @ \o <<Frame(pkg)>>,
                       !.recursions = Add(@, <<pkg.name, pkg.version>>)]
      ELSE c.s

\* the .flatMap of resolveVersionAndDependencies
collectAndRecurse(s, i, pkg) ==
  LET c == collectPackage(s, pkg)
  IN  IF c.result
      THEN [c.s EXCEPT !.tasks[i].stack = <<Frame(pkg)>> \o @,
                       !.recursions = Add(@, <<pkg.name, pkg.version>>)]
      ELSE c.s

(* ------------------------ download orchestrator ----------------------- *)
NewVersionState ==
  [variant |-> 0, binWait |-> "none", binDone |-> FALSE, seen |-> FALSE,
   archPending |-> 0]

NewWorkflow == [status |-> "queued", wait |-> "none", vs |-> <<>>]

Running(workflows) ==
  Cardinality({w \in DOMAIN workflows : workflows[w].status \in {"fetching", "active"}})

wfName(s, w) == s.collectedNames[w]
wfVersion(s, w, j) == s.collectedPackages[s.collectedNames[w]][j]

\* fileExists: the path is registered whatever the answer
fileExists(s, file) == [s EXCEPT !.requiredFiles = @ \cup {file}]
existsSync(s, file) == file \in DOMAIN s.disk

writeFileSync(s, file, content) == [s EXCEPT !.disk = (file :> content) @@ @]

\* mkdirp.sync
mkdirpSync(s, dir) == [s EXCEPT !.dirs = @ \cup {dir}]

\* a cleanupMetadata that rewrites the urls and deletes nothing
cleanupMetadataKeepAll(metadataContent, name, versions) ==
  <<"json", name,
    {<<entry[1], packageTarballFileUrl(name, entry[1])>> : entry \in metadataContent[3]}>>

\* cleanupMetadata, serialized: a copy of the document in which the versions not
\* in `versions` are deleted and every other has the mirror url as dist.tarball
cleanupMetadata(metadataContent, name, versions) ==
  <<"json", name,
    {<<entry[1], packageTarballFileUrl(name, entry[1])>> :
       entry \in {e \in metadataContent[3] : e[1] \in SeqToSet(versions)}}>>

\* downloadPackage up to its fetch of the metadata
downloadPackage(s, w) ==
  LET url == metadataUrl(wfName(s, w))
  IN  [fetchUrl(s, url) EXCEPT !.wf[w].status = "fetching",
                               !.wf[w].wait = fetchWait(s, url)]

\* a limit test that lets one more in
hasCapacityOffByOne(count) == count <= ConcurrencyLimit

\* flatMapWithConcurrencyLimit: an event of the source is spawned while fewer
\* than the limit are running, and queued otherwise
hasCapacity(count) == count < ConcurrencyLimit

RECURSIVE spawnOrQueue(_, _)
spawnOrQueue(s, w) ==
  IF w > Len(s.wf) THEN s
  ELSE spawnOrQueue(IF hasCapacity(Running(s.wf)) THEN downloadPackage(s, w) ELSE s, w + 1)

(* --------------------------- pruning sweep ---------------------------- *)
NewSweep == [phase |-> "none", todo |-> {}, pending |-> {}]

\* the files a directory holds
filesIn(s, dir) == {file \in DOMAIN s.disk : dirname(file) = dir}

\* a filter without the negation
notRequiredInverted(s, entries) == {entry \in entries : entry \in s.requiredFiles}

\* .filter(entry => !requiredFiles[entry.fullPath])
notRequired(s, entries) == {entry \in entries : entry \notin s.requiredFiles}

\* an onEnd subscriber that does not read options.prune
onEndAlways(s) == [s EXCEPT !.sweep.phase = "root"]

\* the onEnd subscriber: with options.prune the readdirp stream of the root is
\* created; it reads the root in a later callback
onEnd(s) == IF options.prune THEN [s EXCEPT !.sweep.phase = "root"] ELSE s

\* readdirp has read the root: every directory entry is emitted, and rmdir is
\* issued for those that pass the filter
rootListed(s) ==
  [s EXCEPT !.sweep = [phase |-> "walking", todo |-> s.dirs,
                       pending |-> {<<"rmdir", dir>> : dir \in notRequired(s, s.dirs)}]]

\* readdirp has read a directory: every file entry is emitted, and unlink is
\* issued for those that pass the filter (a directory that is gone gives a
\* warning and no entry)
directoryListed(s, dir) ==
  LET entries == IF dir \in s.dirs THEN filesIn(s, dir) ELSE {}
  IN  [s EXCEPT !.sweep.todo = @ \ {dir},
                !.sweep.pending = @ \cup {<<"unlink", file>> : file \in notRequired(s, entries)}]

\* fs.rmdir completes: the directory is removed when it is empty, and the error
\* is ignored otherwise
rmdir(s, dir) ==
  [s EXCEPT !.sweep.pending = @ \ {<<"rmdir", dir>>},
            !.dirs = IF filesIn(s, dir) = {} THEN @ \ {dir} ELSE @]

\* fs.unlink completes
unlink(s, file) ==
  [s EXCEPT !.sweep.pending = @ \ {<<"unlink", file>>},
            !.disk = [f \in DOMAIN @ \ {file} |-> @[f]]]

\* the sweep has nothing left to list and no deletion in flight
sweepIdle(sw) == sw.phase = "none" \/ (sw.phase = "walking" /\ sw.todo = {} /\ sw.pending = {})

\* downloaded ends: the onEnd subscriber runs
downloadedEnd(s) ==
  IF \A w \in DOMAIN s.wf : s.wf[w].status = "done"
  THEN onEnd([s EXCEPT !.run = "ended"])
  ELSE s

\* a downloadPackage stream has ended: the first queued one is spawned
checkQueue(s) ==
  LET queued == {w \in DOMAIN s.wf : s.wf[w].status = "queued"}
  IN  IF queued = {} THEN s
      ELSE downloadPackage(s, CHOOSE w \in queued : \A u \in queued : w <= u)

\* mapEnd(collectedPackagesAsArray).flatMap(Bacon.fromArray)
\*   .flatMapWithConcurrencyLimit(5, downloadPackage)
startDownloads(s) ==
  downloadedEnd(
    spawnOrQueue([s EXCEPT !.run = "downloading",
                           !.wf = [w \in 1..Len(s.collectedNames) |-> NewWorkflow]], 1))

\* a mapEnd that fires as soon as one manifest entry's stream has ended
resolutionEndOnFirst(s) ==
  IF s.run = "resolving" /\ \E i \in DOMAIN s.tasks : s.tasks[i].wait = "done"
  THEN startDownloads(s)
  ELSE s

\* the top-level flatMap ends when every manifest entry's stream has ended
resolutionEnd(s) ==
  IF s.run = "resolving" /\ \A i \in DOMAIN s.tasks : s.tasks[i].wait = "done"
  THEN startDownloads(s)
  ELSE s

\* a main-archive step that fetches whatever tarballExists answers
archiveStepAlwaysFetch(s, w, j) ==
  LET name == wfName(s, w)
      version == wfVersion(s, w, j)
      file == packageTarballFilePath(name, version)
      s1 == fileExists([s EXCEPT !.archiveEvents = Add(@, <<name, version>>)], file)
  IN  [fetchUrl(s1, tarballUrl(name, version)) EXCEPT !.wf[w].vs[j].archPending = @ + 1]

\* the main-archive step: tarballExists, then the status or the fetch
archiveStep(s, w, j) ==
  LET name == wfName(s, w)
      version == wfVersion(s, w, j)
      file == packageTarballFilePath(name, version)
      s1 == fileExists([s EXCEPT !.archiveEvents = Add(@, <<name, version>>)], file)
  IN  IF existsSync(s1, file)
      THEN [s1 EXCEPT !.emitted = Add(@, <<"Already downloaded", name, version>>)]
      ELSE [fetchUrl(s1, tarballUrl(name, version)) EXCEPT !.wf[w].vs[j].archPending = @ + 1]

\* .skipDuplicates(): every variant yields the same distribution object, so
\* only the first value of a version passes
skipDuplicates(s, w, j) ==
  IF s.wf[w].vs[j].seen THEN s
  ELSE archiveStep([s EXCEPT !.wf[w].vs[j].seen = TRUE], w, j)

RECURSIVE runVariants(_, _, _, _)
\* Bacon.fromArray(options.prebuiltBinaryProperties).flatMapConcat(...): variant
\* k is tried when the stream of variant k - 1 has ended
runVariants(s, w, j, k) ==
  IF k > Len(options.prebuiltBinaryProperties)
  THEN [s EXCEPT !.wf[w].vs[j].variant = k, !.wf[w].vs[j].binWait = "none",
                 !.wf[w].vs[j].binDone = TRUE]
  ELSE LET name == wfName(s, w)
           version == wfVersion(s, w, j)
           variant == options.prebuiltBinaryProperties[k]
           file == prebuiltBinaryFilePath(name, version, variant)
           url == prebuiltBinaryUrl(name, version, variant)
           s1 == fileExists(s, file)
       IN  IF existsSync(s1, file)
           THEN runVariants(skipDuplicates(s1, w, j), w, j, k + 1)
           ELSE [fetchUrl(s1, url) EXCEPT !.wf[w].vs[j].variant = k,
                                          !.wf[w].vs[j].binWait = fetchWait(s1, url)]

\* the second .flatMap of downloadPackage, for one distribution
binaryStep(s, w, j) ==
  IF versionEntry(wfName(s, w), wfVersion(s, w, j)).binary
  THEN runVariants(s, w, j, 1)
  ELSE archiveStep([s EXCEPT !.wf[w].vs[j].binDone = TRUE], w, j)

RECURSIVE distributions(_, _, _)
distributions(s, w, j) ==
  IF j > Len(s.wf[w].vs) THEN s ELSE distributions(binaryStep(s, w, j), w, j + 1)

\* the .doAction on the metadata: the file is written when absent or different
writeMetadata(s, w, metadataContent) ==
  LET name == wfName(s, w)
      file == packageMetadataFilePath(name)
      content == cleanupMetadata(metadataContent, name, s.collectedPackages[name])
      s1 == fileExists(mkdirpSync(s, dirname(file)), file)
  IN  IF ~existsSync(s1, file) \/ content # s1.disk[file]
      THEN writeFileSync(s1, file, content)
      ELSE s1

\* a downloadPackage stream ends when its metadata, every binary stream and
\* every archive stream have ended
checkWorkflowEnd(s, w) ==
  IF /\ s.run = "downloading"
     /\ s.wf[w].status = "active"
     /\ \A j \in DOMAIN s.wf[w].vs :
          s.wf[w].vs[j].binDone /\ s.wf[w].vs[j].archPending = 0
  THEN downloadedEnd(checkQueue([s EXCEPT !.wf[w].status = "done", !.wf[w].wait = "none"]))
  ELSE s

\* the metadata of workflow w has arrived
metadataArrived(s, w, metadataContent) ==
  LET name == wfName(s, w)
      versions == s.collectedPackages[name]
      s1 == writeMetadata(s, w, metadataContent)
  IN  IF \E j \in DOMAIN versions : ~HasVersion(name, versions[j])
      THEN throw(s1, TypeError(name))
      ELSE checkWorkflowEnd(
             distributions([s1 EXCEPT !.wf[w].status = "active", !.wf[w].wait = "none",
                                      !.wf[w].vs = [j \in DOMAIN versions |-> NewVersionState]],
                           w, 1),
             w)

\* a .doAction that writes the bytes before it compares the digests
writeThenVerify(s, name, version, data) ==
  LET s1 == writeFileSync(s, packageTarballFilePath(name, version), data)
  IN  IF sha1(data) # shasum(name, version) THEN throw(s1, ChecksumError(name, version)) ELSE s1

\* the .doAction of the archive fetch: compare, then write
verifyAndWrite(s, name, version, data) ==
  IF sha1(data) # shasum(name, version) THEN throw(s, ChecksumError(name, version))
  ELSE writeFileSync(s, packageTarballFilePath(name, version), data)

\* the archive stream of version j ends
archiveEnd(s, w, j) ==
  checkWorkflowEnd([s EXCEPT !.wf[w].vs[j].archPending = @ - 1], w)

tarballArrived(s, w, j, data) ==
  LET name == wfName(s, w)
      version == wfVersion(s, w, j)
      s1 == verifyAndWrite(fetchUrlOk(s, tarballUrl(name, version), data),
                           name, version, data)
  IN  IF s1.run = "crashed" THEN s1
      ELSE archiveEnd([s1 EXCEPT !.emitted = Add(@, <<"Downloaded", name, version>>)], w, j)

tarballFailed(s, w, j) ==
  LET s1 == pushError(s, FetchError(tarballUrl(wfName(s, w), wfVersion(s, w, j))))
  IN  IF s1.run = "crashed" THEN s1 ELSE archiveEnd(s1, w, j)

\* the stream of the pending variant ends: the next variant is tried
variantEnd(s, w, j) ==
  IF s.run = "crashed" THEN s
  ELSE checkWorkflowEnd(runVariants(s, w, j, s.wf[w].vs[j].variant + 1), w)

\* .doAction(write the binary).map(distribution)
prebuiltBinaryArrived(s, w, j) ==
  LET name == wfName(s, w)
      version == wfVersion(s, w, j)
      variant == options.prebuiltBinaryProperties[s.wf[w].vs[j].variant]
      url == prebuiltBinaryUrl(name, version, variant)
      data == fetchedBody(s, url, s.wf[w].vs[j].binWait)
      s1 == IF s.wf[w].vs[j].binWait = "net" THEN fetchUrlOk(s, url, data) ELSE s
      s2 == writeFileSync(s1, prebuiltBinaryFilePath(name, version, variant), data)
  IN  variantEnd(skipDuplicates(s2, w, j), w, j)

pendingBinaryUrl(s, w, j) ==
  prebuiltBinaryUrl(wfName(s, w), wfVersion(s, w, j),
                    options.prebuiltBinaryProperties[s.wf[w].vs[j].variant])

\* a binary stream without .mapError: the Error event goes on downstream
prebuiltBinaryFailedFatal(s, w, j) ==
  variantEnd(pushError(s, FetchError(pendingBinaryUrl(s, w, j))), w, j)

\* .mapError(err => distribution): the failure becomes a value
prebuiltBinaryFailed(s, w, j) == variantEnd(skipDuplicates(s, w, j), w, j)

(* ------------------- the callbacks of the resolver -------------------- *)
NewTask == [stack |-> <<>>, cur |-> NoDep, wait |-> "done"]

RECURSIVE subscribeManifest(_, _)
\* Bacon.fromArray(dependencies).flatMap(resolveVersionAndDependencies): every
\* manifest entry is spawned at once
subscribeManifest(s, i) ==
  IF i > Len(options.manifest) THEN s
  ELSE subscribeManifest(resolveVersionAndDependencies(s, i, options.manifest[i]), i + 1)

resolveArrived(s, i) ==
  LET package == s.tasks[i].cur
      url == metadataUrl(package.name)
      s1 == IF s.tasks[i].wait = "net"
            THEN fetchUrlOk(s, url, fetchedBody(s, url, "net")) ELSE s
      pkg == resolvedPackage(package)
  IN  IF pkg.threw THEN throw(s1, TypeError(package.name))
      ELSE resolutionEnd(nextDependency(collectAndRecurse(s1, i, pkg), i))

resolveFailed(s, i) ==
  LET s1 == pushError(s, FetchError(metadataUrl(s.tasks[i].cur.name)))
  IN  IF s1.run = "crashed" THEN s1 ELSE resolutionEnd(nextDependency(s1, i))

metadataFailed(s, w) ==
  LET s1 == pushError(s, FetchError(metadataUrl(wfName(s, w))))
  IN  IF s1.run = "crashed" THEN s1
      ELSE checkWorkflowEnd([s1 EXCEPT !.wf[w].status = "active", !.wf[w].wait = "none"], w)

(* ------------------------------ actions ------------------------------- *)
Init ==
  /\ options \in Options
  /\ runNo = 1
  /\ run = "init"
  /\ responseCache = <<>>
  /\ requiredFiles = {}
  /\ collectedNames = <<>>
  /\ collectedPackages = [name \in Names |-> <<>>]
  /\ \E mirror \in Mirrors(options) : disk = mirror.disk /\ dirs = mirror.dirs
  /\ sweep = NewSweep
  /\ tasks = <<>>
  /\ wf = <<>>
  /\ requests = EmptyBag
  /\ emitted = EmptyBag
  /\ archiveEvents = EmptyBag
  /\ recursions = EmptyBag
  /\ cacheWrites = EmptyBag
  /\ fatal = NoError

\* the body of synchronize: the pipeline is built and subscribed
Synchronize ==
  /\ run = "init"
  /\ Commit(resolutionEnd(subscribeManifest(
       [Cur EXCEPT !.run = "resolving",
                   !.tasks = [i \in 1..Len(options.manifest) |-> NewTask]], 1)))
  /\ UNCHANGED <<options, runNo>>

\* the metadata fetch of a resolution settles
MetadataResolved(i) ==
  /\ run = "resolving"
  /\ tasks[i].wait \in {"net", "timer"}
  /\ \E outcome \in Outcomes(tasks[i].wait) :
       /\ Commit(IF outcome = "ok" THEN resolveArrived(Cur, i) ELSE resolveFailed(Cur, i))
  /\ UNCHANGED <<options, runNo>>

\* the metadata fetch of a downloadPackage settles
MetadataDownloaded(w) ==
  /\ run = "downloading"
  /\ wf[w].status = "fetching"
  /\ \E outcome \in Outcomes(wf[w].wait) :
       /\ Commit(IF outcome = "ok"
                 THEN LET url == metadataUrl(collectedNames[w])
                          body == fetchedBody(Cur, url, wf[w].wait)
                      IN  metadataArrived(
                            IF wf[w].wait = "net" THEN fetchUrlOk(Cur, url, body) ELSE Cur,
                            w, body)
                 ELSE metadataFailed(Cur, w))
  /\ UNCHANGED <<options, runNo>>

\* the fetch of a prebuilt binary settles
PrebuiltBinaryFetched(w, j) ==
  /\ run = "downloading"
  /\ wf[w].status = "active"
  /\ wf[w].vs[j].binWait \in {"net", "timer"}
  /\ \E outcome \in Outcomes(wf[w].vs[j].binWait) :
       /\ Commit(IF outcome = "ok" THEN prebuiltBinaryArrived(Cur, w, j)
                 ELSE prebuiltBinaryFailed(Cur, w, j))
  /\ UNCHANGED <<options, runNo>>

\* the fetch of a main archive settles
TarballFetched(w, j) ==
  /\ run = "downloading"
  /\ wf[w].status = "active"
  /\ wf[w].vs[j].archPending > 0
  /\ LET name == collectedNames[w]
         version == collectedPackages[name][j]
     IN  \E outcome \in {"ok", "corrupt", "fail"} :
           /\ Commit(CASE outcome = "ok" ->
                            tarballArrived(Cur, w, j, upstreamBytes(name, version))
                       [] outcome = "corrupt" ->
                            tarballArrived(Cur, w, j, corruptBytes(name, version))
                       [] outcome = "fail" -> tarballFailed(Cur, w, j))
  /\ UNCHANGED <<options, runNo>>

\* readdirp delivers the entries of the root
RootListed ==
  /\ sweep.phase = "root"
  /\ Commit(rootListed(Cur))
  /\ UNCHANGED <<options, runNo>>

\* readdirp delivers the entries of a package directory
DirectoryListed(dir) ==
  /\ sweep.phase = "walking"
  /\ dir \in sweep.todo
  /\ Commit(directoryListed(Cur, dir))
  /\ UNCHANGED <<options, runNo>>

\* an fs.rmdir issued by the sweep completes
RmdirDone(dir) ==
  /\ <<"rmdir", dir>> \in sweep.pending
  /\ Commit(rmdir(Cur, dir))
  /\ UNCHANGED <<options, runNo>>

\* an fs.unlink issued by the sweep completes
UnlinkDone(file) ==
  /\ <<"unlink", file>> \in sweep.pending
  /\ Commit(unlink(Cur, file))
  /\ UNCHANGED <<options, runNo>>

\* the program is run again, as a new process, against the mirror root the
\* completed run left
Restart ==
  /\ run = "ended"
  /\ sweepIdle(sweep)
  /\ runNo < MaxRuns
  /\ runNo' = runNo + 1
  /\ run' = "init"
  /\ responseCache' = <<>>
  /\ sweep' = NewSweep
  /\ cacheWrites' = EmptyBag
  /\ requiredFiles' = {}
  /\ collectedNames' = <<>>
  /\ collectedPackages' = [name \in Names |-> <<>>]
  /\ tasks' = <<>>
  /\ wf' = <<>>
  /\ requests' = EmptyBag
  /\ emitted' = EmptyBag
  /\ archiveEvents' = EmptyBag
  /\ recursions' = EmptyBag
  /\ fatal' = NoError
  /\ UNCHANGED <<options, disk, dirs>>

Next ==
  \/ Synchronize
  \/ \E i \in DOMAIN tasks : MetadataResolved(i)
  \/ \E w \in DOMAIN wf : MetadataDownloaded(w)
  \/ \E w \in DOMAIN wf : \E j \in DOMAIN wf[w].vs : PrebuiltBinaryFetched(w, j)
  \/ \E w \in DOMAIN wf : \E j \in DOMAIN wf[w].vs : TarballFetched(w, j)
  \/ RootListed
  \/ \E dir \in sweep.todo : DirectoryListed(dir)
  \/ \E dir \in dirs : RmdirDone(dir)
  \/ \E file \in DOMAIN disk : UnlinkDone(file)
  \/ Restart

Spec == Init /\ [][Next]_vars

(* ------------------------------ typing -------------------------------- *)
TypeOK ==
  /\ run \in {"init", "resolving", "downloading", "ended", "crashed"}
  /\ runNo \in 1..MaxRuns
  /\ \A w \in DOMAIN wf : wf[w].status \in {"queued", "fetching", "active", "done"}
  /\ sweep.phase \in {"none", "root", "walking"}
  /\ \A file \in DOMAIN disk : dirname(file) \in dirs
  /\ \A url \in DOMAIN responseCache : ~endsWithTgz(url)

(* ------------------------------ helpers ------------------------------- *)
AllPairs ==
  UNION {{<<name, Registry[name][i].version>> : i \in DOMAIN Registry[name]} : name \in Names}

IsError(e, kind) == e # NoError /\ e[1] = kind

NoDuplicates(seq) == \A i, j \in DOMAIN seq : seq[i] = seq[j] => i = j

Collected == {pair \in AllPairs : pair[2] \in SeqToSet(collectedPackages[pair[1]])}

(* ------------------------------- claims ------------------------------- *)

\* C1: at most 5 downloadPackage workflows are in progress at once, and a queued
\* workflow starts only in a step in which one of 5 running workflows finishes.
C1_ConcurrencyCap ==
  [][ /\ Running(wf') <= ConcurrencyLimit
      /\ \A w \in DOMAIN wf :
           (wf[w].status = "queued" /\ w \in DOMAIN wf' /\ wf'[w].status # "queued") =>
             /\ Running(wf) = ConcurrencyLimit
             /\ \E u \in DOMAIN wf :
                  wf[u].status \in {"fetching", "active"} /\ wf'[u].status = "done" ]_vars

\* the sixth workflow was started after one of the first five finished, and five
\* run again
C1_Witness ==
  /\ Len(wf) > ConcurrencyLimit
  /\ wf[ConcurrencyLimit + 1].status \in {"fetching", "active"}
  /\ Running(wf) = ConcurrencyLimit
  /\ \E u \in DOMAIN wf : wf[u].status = "done"

\* C2: collectPackage returns true at most once per (name, version), so the
\* dependencies of a pair are recursed into at most once, and no version
\* appears twice in the collected list of a name.
C2_CollectOnce ==
  /\ \A name \in Names : NoDuplicates(collectedPackages[name])
  /\ \A pair \in BagToSet(recursions) : CopiesIn(pair, recursions) <= 1
  /\ \A pair \in BagToSet(recursions) : pair[2] \in SeqToSet(collectedPackages[pair[1]])

\* both dependents of the diamond have resolved c, in parallel, and c@1.2.0 was
\* recursed into once
C2_Witness ==
  /\ run = "downloading"
  /\ CopiesIn(metadataUrl("c"), requests) = 2
  /\ CopiesIn(<<"c", V(1,2,0)>>, recursions) = 1
  /\ collectedPackages["c"] = <<V(1,2,0)>>

\* the package `pair` declares a dependency that resolves to `target`
DependsOn(pair, target) ==
  LET deps == versionEntry(pair[1], pair[2]).dependencies
  IN  \E i \in DOMAIN deps :
        /\ deps[i].name = target[1]
        /\ maxSatisfying(available(target[1]), deps[i].versionRange) = target[2]

\* the name@version pairs that two different collected packages depend on
DiamondTargets ==
  {target \in AllPairs :
     \E p1, p2 \in Collected : p1 # p2 /\ DependsOn(p1, target) /\ DependsOn(p2, target)}

\* C3: when two collected packages depend on the same name@version, the
\* metadata document of that name has been requested over the network exactly
\* once in the run.
C3_MetadataFetchedOnce ==
  \A target \in DiamondTargets : CopiesIn(metadataUrl(target[1]), requests) = 1

\* C4: a step changes a tarball file only to bytes whose SHA-1 is the declared
\* shasum, and the step in which a checksum mismatch is found writes nothing
\* and ends the run with the error.
C4_ChecksumEnforced ==
  [][ /\ \A pair \in AllPairs :
           LET file == packageTarballFilePath(pair[1], pair[2])
           IN  (file \in DOMAIN disk' /\ (file \notin DOMAIN disk \/ disk'[file] # disk[file]))
                 => sha1(disk'[file]) = shasum(pair[1], pair[2])
      /\ (fatal = NoError /\ IsError(fatal', "ChecksumError")) =>
           (disk' = disk /\ run' = "crashed") ]_vars

\* a mismatch was found for a tarball that is not on disk, while another
\* tarball of the run was written
C4_Witness ==
  /\ IsError(fatal, "ChecksumError")
  /\ packageTarballFilePath(fatal[2], fatal[3]) \notin DOMAIN disk
  /\ \E pair \in AllPairs : packageTarballFilePath(pair[1], pair[2]) \in DOMAIN disk

\* C5: once a fatal error has occurred the run is over: no later step issues a
\* request or changes the disk.
C5_FatalAborts ==
  [][ /\ fatal' # NoError => run' = "crashed"
      /\ fatal # NoError => (disk' = disk /\ requests' = requests) ]_vars

\* an archive fetch failed while a sibling workflow was in flight and another
\* was still queued
C5_Witness ==
  /\ IsError(fatal, "FetchError")
  /\ fatal[2][1] = "tgz"
  /\ Running(wf) > 1
  /\ \E w \in DOMAIN wf : wf[w].status = "queued"

PendingUnsatisfiable(i) ==
  /\ run = "resolving"
  /\ tasks[i].wait \in {"net", "timer"}
  /\ maxSatisfying(available(tasks[i].cur.name), tasks[i].cur.versionRange) = Null

\* C6: a resolution whose range no published version satisfies never proceeds:
\* the step that settles it ends the run with an error, no null version is
\* ever collected, and no download exists for one.
C6_NoVersionIsFatal ==
  [][ /\ \A name \in Names : Null \notin SeqToSet(collectedPackages'[name])
      /\ \A i \in DOMAIN tasks :
           PendingUnsatisfiable(i) =>
             /\ run' \in {"resolving", "crashed"}
             /\ i \in DOMAIN tasks' /\ tasks'[i] = tasks[i]
             /\ collectedPackages'[tasks[i].cur.name] = collectedPackages[tasks[i].cur.name] ]_vars

\* the metadata of q arrived and none of its versions satisfies ^9.0.0
C6_Witness ==
  /\ fatal = TypeError("q")
  /\ run = "crashed"
  /\ metadataUrl("q") \in DOMAIN responseCache

\* C7: a failed fetch of a prebuilt binary never ends the run; in the step in
\* which it settles, the next variant (if any) is attempted and an event of
\* that version has reached the main-archive step.
C7_BinaryFailureNotFatal ==
  [][ /\ ~(IsError(fatal', "FetchError") /\ fatal'[2][1] = "bin")
      /\ \A w \in DOMAIN wf : \A j \in DOMAIN wf[w].vs :
           LET name == collectedNames[w]
               version == collectedPackages[name][j]
               k == wf[w].vs[j].variant
               n == Len(options.prebuiltBinaryProperties)
           IN  ( /\ wf[w].vs[j].binWait # "none"
                 /\ w \in DOMAIN wf' /\ j \in DOMAIN wf'[w].vs
                 /\ wf'[w].vs[j].variant # k
                 /\ prebuiltBinaryFilePath(name, version, options.prebuiltBinaryProperties[k])
                      \notin DOMAIN disk' ) =>
                 /\ run' # "crashed" /\ fatal' = NoError
                 /\ CopiesIn(<<name, version>>, archiveEvents') >= 1
                 /\ packageTarballFilePath(name, version) \in requiredFiles'
                 /\ wf'[w].vs[j].variant > k
                 /\ k < n =>
                      prebuiltBinaryFilePath(name, version, options.prebuiltBinaryProperties[k + 1])
                        \in requiredFiles'
                 /\ k = n => wf'[w].vs[j].binDone ]_vars

\* the first variant of a version failed, the second is being fetched, and the
\* archive of the version has been handled
C7_Witness ==
  \E w \in DOMAIN wf : \E j \in DOMAIN wf[w].vs :
    LET name == collectedNames[w]
        version == collectedPackages[name][j]
    IN  /\ run = "downloading"
        /\ wf[w].vs[j].variant = 2
        /\ wf[w].vs[j].binWait = "net"
        /\ prebuiltBinaryFilePath(name, version, 1) \notin DOMAIN disk
        /\ CopiesIn(<<name, version>>, archiveEvents) = 1

C9_ArchiveAfterAllVariants ==
  \A w \in DOMAIN wf : \A j \in DOMAIN wf[w].vs :
    LET name == collectedNames[w]
        version == collectedPackages[name][j]
    IN  (versionEntry(name, version).binary /\ CopiesIn(<<name, version>>, archiveEvents) >= 1)
          => wf[w].vs[j].binDone

\* C10: when an event reaches the main-archive step of a version whose tarball
\* exists, no request is issued for the archive, the file is left as it is and
\* "Already downloaded" is emitted once; and a run that follows a completed run
\* requests no archive.
C10_ExistingTarballSkipped ==
  [][ /\ \A pair \in AllPairs :
           LET file == packageTarballFilePath(pair[1], pair[2])
               url == tarballUrl(pair[1], pair[2])
               status == <<"Already downloaded", pair[1], pair[2]>>
           IN  /\ ( CopiesIn(pair, archiveEvents') > CopiesIn(pair, archiveEvents)
                    /\ file \in DOMAIN disk ) =>
                      /\ CopiesIn(url, requests') = CopiesIn(url, requests)
                      /\ file \in DOMAIN disk' /\ disk'[file] = disk[file]
                      /\ CopiesIn(status, emitted') = CopiesIn(status, emitted) + 1
               /\ runNo' > 1 => CopiesIn(url, requests') = 0 ]_vars

\* the second run has found the two tarballs of c that the first run wrote
C10_Witness ==
  /\ runNo = 2
  /\ run = "ended"
  /\ CopiesIn(<<"Already downloaded", "c", V(1,2,0)>>, emitted) = 1
  /\ CopiesIn(<<"Already downloaded", "c", V(2,0,0)>>, emitted) = 1
  /\ CopiesIn(tarballUrl("c", V(1,2,0)), requests) = 0

\* the sweep has listed everything and every deletion it issued has completed
SweepComplete == sweep.phase = "walking" /\ sweep.todo = {} /\ sweep.pending = {}

\* C11: the pruning sweep starts at most once per run, only with options.prune,
\* and only in the step in which the download stream ends: every workflow is
\* done, nothing is in flight and there is no fatal error; a step changes the
\* mirror by deleting only while the sweep is walking, and once the sweep has
\* begun no path is added to requiredFiles.
C11_SweepAfterEnd ==
  [][ /\ (sweep.phase = "none" /\ sweep'.phase # "none") =>
           /\ options.prune
           /\ run # "ended" /\ run' = "ended"
           /\ fatal' = NoError
           /\ \A i \in DOMAIN tasks' : tasks'[i].wait = "done"
           /\ \A w \in DOMAIN wf' :
                /\ wf'[w].status = "done"
                /\ \A j \in DOMAIN wf'[w].vs :
                     wf'[w].vs[j].binWait = "none" /\ wf'[w].vs[j].archPending = 0
      /\ (sweep.phase # "none" /\ runNo' = runNo) =>
           /\ requiredFiles' = requiredFiles
           /\ run' = "ended"
           /\ sweep'.phase # "none"
           /\ sweep'.phase = "root" => sweep.phase = "root"
      /\ (~(DOMAIN disk \subseteq DOMAIN disk') \/ ~(dirs \subseteq dirs')) =>
           sweep.phase = "walking" ]_vars

\* the sweep of a run that downloaded two packages is walking the root
C11_Witness ==
  /\ options.prune
  /\ sweep.phase = "walking"
  /\ sweep.pending # {}
  /\ Len(wf) >= 2
  /\ packageTarballFilePath("x", V(1,0,0)) \in requiredFiles

\* the file is the metadata file, a tarball or a prebuilt binary of a package
\* of the collected set
BelongsToResolved(file) ==
  /\ file[2] \in Names
  /\ \/ file[1] = "index.json" /\ collectedPackages[file[2]] # <<>>
     \/ file[1] \in {"tarball", "binary"} /\ file[3] \in SeqToSet(collectedPackages[file[2]])

C13_LeftoverAndDirectoryRemoved ==
  (options.prune /\ run = "ended" /\ SweepComplete) =>
    /\ packageMetadataFilePath(LeftoverPkg) \notin DOMAIN disk
    /\ packageFolder(LeftoverPkg) \notin dirs

\* C13 amended: with prune, once the sweep of a run has completed,
\* leftover-pkg/index.json does not exist and the directory leftover-pkg is
\* gone or empty; once the sweep of a second run has completed the directory
\* does not exist.
C13_LeftoverRemoved ==
  (options.prune /\ run = "ended" /\ SweepComplete) =>
    /\ packageMetadataFilePath(LeftoverPkg) \notin DOMAIN disk
    /\ \A file \in DOMAIN disk : dirname(file) # packageFolder(LeftoverPkg)
    /\ runNo > 1 => packageFolder(LeftoverPkg) \notin dirs

\* the sweep of the first run has completed: the file is gone and its
\* directory, whose rmdir completed first, is still there
C13_Witness ==
  /\ options.prune /\ run = "ended" /\ SweepComplete
  /\ runNo = 1
  /\ options.manifest # <<>>
  /\ packageMetadataFilePath(LeftoverPkg) \notin DOMAIN disk
  /\ packageFolder(LeftoverPkg) \in dirs

\* the versions a metadata document has an entry for
VersionsOf(document) == {entry[1] : entry \in document[3]}

\* C14: once the metadata of a download workflow has been handled, the metadata
\* file of its package holds an entry for exactly the collected versions of the
\* name, each with the mirror url of that name and version as its archive url,
\* and every cached body is still the document upstream served.
C14_MetadataRewritten ==
  /\ \A w \in DOMAIN wf :
       wf[w].status \in {"active", "done"} =>
         LET name == collectedNames[w]
             file == packageMetadataFilePath(name)
         IN  /\ file \in DOMAIN disk
             /\ VersionsOf(disk[file]) = SeqToSet(collectedPackages[name])
             /\ \A entry \in disk[file][3] :
                  entry[2] = packageTarballFileUrl(name, entry[1]) /\ entry[2] # tarballUrl(name, entry[1])
  /\ \A url \in DOMAIN responseCache : responseCache[url] = upstreamBody(url)

\* upstream publishes three versions of c; two are collected and the written
\* file keeps those two, while the cached document still has the three
C14_Witness ==
  /\ run = "ended"
  /\ packageMetadataFilePath("c") \in DOMAIN disk
  /\ metadataUrl("c") \in DOMAIN responseCache
  /\ VersionsOf(disk[packageMetadataFilePath("c")]) = {V(1,2,0), V(2,0,0)}
  /\ VersionsOf(responseCache[metadataUrl("c")]) = {V(1,0,0), V(1,2,0), V(2,0,0)}

\* v is published for the name, satisfies the range, and no published version
\* that satisfies the range is greater
IsMaximumSatisfying(v, name, range) ==
  /\ \E k \in DOMAIN Registry[name] : Registry[name][k].version = v
  /\ Satisfies(v, range)
  /\ \A k \in DOMAIN Registry[name] :
       Satisfies(Registry[name][k].version, range) => ~SemverLT(v, Registry[name][k].version)

\* the resolution of manifest entry i settles in this step
Settles(i) ==
  /\ run = "resolving" /\ tasks[i].wait \in {"net", "timer"}
  /\ i \in DOMAIN tasks' /\ tasks'[i] # tasks[i]

\* C15: when a resolution settles without error, the greatest published
\* version that satisfies its range is in the collected set of the name, and a
\* version enters a collected set only as that version of a settling
\* resolution; for c, published as 1.0.0, 1.2.0 and 2.0.0, and ^1.0.0 it is
\* 1.2.0.
C15_MaximumSatisfying ==
  [][ /\ \A i \in DOMAIN tasks :
           (Settles(i) /\ run' # "crashed") =>
             /\ \E v \in SeqToSet(collectedPackages'[tasks[i].cur.name]) :
                  IsMaximumSatisfying(v, tasks[i].cur.name, tasks[i].cur.versionRange)
             /\ tasks[i].cur = Dep("c", Caret(V(1,0,0))) =>
                  V(1,2,0) \in SeqToSet(collectedPackages'["c"])
      /\ \A name \in Names :
           \A v \in SeqToSet(collectedPackages'[name]) \ SeqToSet(collectedPackages[name]) :
             \E i \in DOMAIN tasks :
               /\ Settles(i) /\ tasks[i].cur.name = name
               /\ IsMaximumSatisfying(v, name, tasks[i].cur.versionRange) ]_vars

\* a and b have both asked for c@^1.0.0 and 1.2.0 alone was collected
C15_Witness ==
  /\ Len(options.manifest) = 2 /\ options.manifest[1].name = "a"
  /\ \A i \in DOMAIN tasks : tasks[i].wait = "done"
  /\ collectedPackages["c"] = <<V(1,2,0)>>
  /\ collectedPackages["a"] = <<V(1,0,0)>>

\* how far a download workflow has got
Progress(status) ==
  CASE status = "queued" -> 0 [] status = "fetching" -> 1 [] status = "active" -> 2
    [] status = "done" -> 3

\* C16: the download workflows are created in one step, one per distinct
\* collected name, when every manifest entry's resolution has completed; from
\* then on the collected sets do not change in the run, each workflow leaves
\* "queued" (downloadPackage is invoked) at most once and, when the run ends,
\* has done so, with the final version list of its name.
C16_DownloadAfterResolution ==
  [][ /\ wf' # <<>> =>
           /\ \A i \in DOMAIN tasks' : tasks'[i].wait = "done" /\ tasks'[i].stack = <<>>
           /\ NoDuplicates(collectedNames')
           /\ DOMAIN wf' = DOMAIN collectedNames'
           /\ SeqToSet(collectedNames') = {name \in Names : collectedPackages'[name] # <<>>}
           /\ \A w \in DOMAIN wf' :
                wf'[w].status \in {"active", "done"} =>
                  Len(wf'[w].vs) = Len(collectedPackages'[collectedNames'[w]])
      /\ (wf # <<>> /\ runNo' = runNo) =>
           /\ collectedPackages' = collectedPackages
           /\ collectedNames' = collectedNames
           /\ DOMAIN wf' = DOMAIN wf
           /\ \A w \in DOMAIN wf : Progress(wf'[w].status) >= Progress(wf[w].status)
      /\ run' = "ended" => \A w \in DOMAIN wf' : wf'[w].status = "done" ]_vars

\* the one workflow of c handles the two versions of c that d's subtree
\* collected, while another workflow is still fetching its metadata
C16_Witness ==
  /\ run = "downloading"
  /\ \E w \in DOMAIN wf :
       /\ collectedNames[w] = "c"
       /\ wf[w].status = "active"
       /\ Len(wf[w].vs) = Len(collectedPackages["c"])
       /\ SeqToSet(collectedPackages["c"]) = {V(1,2,0), V(2,0,0)}
  /\ \E w \in DOMAIN wf : wf[w].status = "fetching"

\* C17: every url is assigned to the response cache at most once in a run, the
\* cached urls are exactly the urls assigned, and none of them ends in .tgz.
C17_CacheWrittenOnce ==
  /\ \A url \in BagToSet(cacheWrites) : CopiesIn(url, cacheWrites) = 1 /\ ~endsWithTgz(url)
  /\ DOMAIN responseCache = BagToSet(cacheWrites)

\* the dependencies the version `pair` declares, in declaration order
Declared(pair) == versionEntry(pair[1], pair[2]).dependencies

\* the position, in the declaration of its package, of the dependency a frame
\* started last
StartedIndex(frame) == Len(Declared(frame.parent)) - Len(frame.rest)

ResolvesTo(dep, pair) ==
  dep.name = pair[1] /\ IsMaximumSatisfying(pair[2], dep.name, dep.versionRange)

\* the open resolutions of a manifest entry form one chain: every open package
\* has started a prefix of its declared dependencies, the last started one is
\* the open package above it (or the pending fetch), and those after it have
\* not started
OneChain(task, entry) ==
  LET stack == task.stack
      n == Len(stack)
      InProgress(f) == Declared(stack[f].parent)[StartedIndex(stack[f])]
  IN  /\ \A f \in 1..n :
           /\ HasVersion(stack[f].parent[1], stack[f].parent[2])
           /\ StartedIndex(stack[f]) >= 1
           /\ stack[f].rest = SubSeq(Declared(stack[f].parent), StartedIndex(stack[f]) + 1,
                                     Len(Declared(stack[f].parent)))
      /\ task.cur = IF n = 0 THEN entry ELSE InProgress(1)
      /\ \A f \in 1..(n - 1) : ResolvesTo(InProgress(f + 1), stack[f].parent)
      /\ n > 0 => ResolvesTo(entry, stack[n].parent)

\* C18: while a manifest entry is being resolved its open resolutions form one
\* chain, and the next sibling dependency of a package starts only in a step
\* in which nothing below that package is left open or waiting to start;
\* different manifest entries are pending independently.
C18_SiblingsInSequence ==
  [][ \A i \in DOMAIN tasks' :
        /\ tasks'[i].wait \in {"net", "timer"} => OneChain(tasks'[i], options.manifest[i])
        /\ (i \in DOMAIN tasks /\ tasks[i].wait \in {"net", "timer"}) =>
             \A b \in 1..Len(tasks[i].stack) :
               LET old == tasks[i].stack
                   new == tasks'[i].stack
                   f == Len(old) - b + 1
                   g == Len(new) - b + 1
               IN  ( /\ b <= Len(new)
                     /\ new[g].parent = old[f].parent
                     /\ Len(new[g].rest) < Len(old[f].rest) ) =>
                       /\ g = 1
                       /\ new[g].rest = Tail(old[f].rest)
                       /\ tasks'[i].cur = Head(old[f].rest)
                       /\ \A h \in 1..(f - 1) : old[h].rest = <<>> ]_vars

\* the subtree of the first dependency of d (c@2.0.0, a, c@1.2.0) is complete
\* and the second dependency of d, s, is being fetched
C18_Witness ==
  /\ run = "resolving"
  /\ Len(tasks) = 1
  /\ tasks[1].wait = "net"
  /\ tasks[1].cur.name = "s"
  /\ tasks[1].stack = <<[parent |-> <<"d", V(1,0,0)>>, rest |-> <<>>]>>
  /\ SeqToSet(collectedPackages["c"]) = {V(1,2,0), V(2,0,0)}

RECURSIVE SumOver(_, _)
SumOver(f, S) ==
  IF S = {} THEN 0 ELSE LET x == CHOOSE y \in S : TRUE IN f[x] + SumOver(f, S \ {x})

\* the resolutions a manifest entry still has to settle or start
Outstanding(task) ==
  (IF task.wait \in {"net", "timer"} THEN 1 ELSE 0)
    + SumOver([f \in DOMAIN task.stack |-> Len(task.stack[f].rest)], DOMAIN task.stack)

TotalOutstanding(ts) == SumOver([i \in DOMAIN ts |-> Outstanding(ts[i])], DOMAIN ts)

CollectedCount(cp) == SumOver([name \in Names |-> Len(cp[name])], Names)

\* C19: resolution always terminates: while the run is resolving a fetch is
\* pending, and every step of the resolution either collects a new
\* name@version, of which the registry has finitely many, or leaves the
\* collected sets as they are and lowers the number of resolutions still to
\* settle or start; collecting a version without dependencies opens nothing.
C19_ResolutionTerminates ==
  [][ /\ run' = "resolving" => \E i \in DOMAIN tasks' : tasks'[i].wait \in {"net", "timer"}
      /\ (run = "resolving" /\ run' # "crashed") =>
           /\ CollectedCount(collectedPackages') <= Cardinality(AllPairs)
           /\ \/ CollectedCount(collectedPackages') > CollectedCount(collectedPackages)
              \/ /\ collectedPackages' = collectedPackages
                 /\ TotalOutstanding(tasks') < TotalOutstanding(tasks)
           /\ \A i \in DOMAIN tasks :
                \A pair \in BagToSet(recursions') \ BagToSet(recursions) :
                  (Settles(i) /\ Declared(pair) = <<>>) =>
                    Len(tasks'[i].stack) <= Len(tasks[i].stack) ]_vars

\* the cycles x -> y -> x and s -> s have been resolved, each package once
C19_Witness ==
  /\ run = "downloading"
  /\ collectedPackages["x"] = <<V(1,0,0)>>
  /\ collectedPackages["y"] = <<V(1,0,0)>>
  /\ collectedPackages["s"] = <<V(1,0,0)>>
  /\ CopiesIn(<<"x", V(1,0,0)>>, recursions) = 1
  /\ CopiesIn(<<"s", V(1,0,0)>>, recursions) = 1

\* the version a dependency resolves to
Selected(dep) ==
  <<dep.name, CHOOSE v \in SeqToSet(available(dep.name)) :
                IsMaximumSatisfying(v, dep.name, dep.versionRange)>>

RECURSIVE Closure(_)
\* the least set that holds `pairs` and the selected version of every
\* dependency of its members
Closure(pairs) ==
  LET more == pairs \cup UNION {{Selected(Declared(pair)[k]) : k \in DOMAIN Declared(pair)} :
                                  pair \in pairs}
  IN  IF more = pairs THEN pairs ELSE Closure(more)

\* C20: when resolution has completed without error, the collected pairs are
\* exactly the selected versions of the manifest dependencies together with
\* everything reachable from them through declared dependencies.
C20_ClosedUnderDependencies ==
  run \in {"downloading", "ended"} =>
    /\ Collected = Closure({Selected(options.manifest[i]) : i \in DOMAIN options.manifest})
    /\ \A name \in Names : \A v \in SeqToSet(collectedPackages[name]) : <<name, v>> \in AllPairs

\* d has pulled in c@2.0.0, a, c@1.2.0 and s
C20_Witness ==
  /\ run = "ended"
  /\ Len(options.manifest) = 1 /\ options.manifest[1].name = "d"
  /\ Collected = {<<"d", V(1,0,0)>>, <<"c", V(2,0,0)>>, <<"a", V(1,0,0)>>,
                  <<"c", V(1,2,0)>>, <<"s", V(1,0,0)>>}

====
